---- MODULE Spec2Model ----
(***************************************************************************)
(* Post lifecycle and scheduling engine of Xbot.                           *)
(*                                                                         *)
(*   backend/app/services/post_manager.py   PostManager                    *)
(*   backend/app/services/scheduler.py      PostScheduler                  *)
(*                                                                         *)
(* One PostScheduler and the PostManager it owns (self.post_manager).      *)
(* Every public operation is one atomic action: the callers and the        *)
(* background loop are coroutines of one event loop, so control changes    *)
(* hands only at an await.  The only await inside an operation is the call *)
(* of the Publisher (x_service.post_tweet) in post_now; post_now, and the  *)
(* scan pass that awaits it, are therefore split at that point.            *)
(*                                                                         *)
(* Spec is the scheduler with the posts of its PostManager, SpecWide the   *)
(* same with room for one more schedule, SpecFault SpecWide with store     *)
(* files that may become unwritable, SpecPM a PostManager under the calls  *)
(* of its own callers.                                                     *)
(*                                                                         *)
(* Time is a small integer clock.  A Python None in a datetime field is    *)
(* NoTime, a None error message is NoMsg.  Ids are uuid4 values: fresh,    *)
(* never reused; a post id is the index of its creation, a schedule id the *)
(* index of the schedule in the insertion-ordered dict self.schedules.     *)
(***************************************************************************)
EXTENDS Integers, Sequences, FiniteSets, TLC

\* ---------------------------------------------------------------- bounds
MaxTime == 1
MaxPosts == 1
MaxSchedules == 1
MaxSuggestions == 3

Times == 0..MaxTime
PostIds == 1..MaxPosts
\* the ids a caller may name: those of the schedules, and one more
ScheduleIds == 1..(MaxSchedules + 1)

\* ------------------------------------------------------------- constants
NoTime == -1
\* a post id that no post ever has (a schedule may name any string)
GhostId == 0
NoMsg == "None"
\* "X API投稿に失敗しました"
MsgXApi == "X API post failed"
\* "投稿実行に失敗しました"
MsgGeneric == "post execution failed"
\* "投稿の実行に失敗しました: 投稿が見つかりません: <id>"
MsgNotFound == "post_now failed: post not found"
\* "投稿管理データの保存に失敗しました: ..."
MsgPostSave == "post store save failed"
\* "スケジューラーデータの保存に失敗しました: ..."
MsgSchedSave == "schedule store save failed"

PostStatus == {"draft", "scheduled", "posted", "failed"}
PostType == {"text", "image", "video", "mixed"}
ScheduleType == {"once", "daily", "weekly", "monthly"}
\* template_name of a post made without a template
NoTemplate == "None"
ScheduleStatus == {"pending", "executed", "failed", "cancelled"}

VARIABLES
    now,          \* datetime.now()
    post,         \* the Post objects, by id (an object outlives its deletion)
    created,      \* number of post ids generated so far
    posts,        \* keys of PostManager.posts   (the active partition)
    drafts,       \* keys of PostManager.drafts  (the draft partition)
    inflight,     \* posts of the direct post_now calls awaiting the Publisher
    schedules,    \* PostScheduler.schedules, in insertion order
    pc,           \* the loop task: "sleep" | "await" | "done"
    scanNow,      \* `now` of the scan pass under way
    it,           \* number of items the pass's dict iterator has yielded
    itLen,        \* size of self.schedules when the iterator was created
    postStoreOk,  \* PostManager.save_data succeeds
    schedStoreOk, \* PostScheduler.save_data succeeds
    result,       \* what the last call of a public operation returned
    invoked,      \* history: the schedules the loop has called post_now for
    config,       \* PostScheduler.config (self.config)
    templates,    \* keys of PostManager.templates; each holds a PostType member
    running,      \* PostScheduler.running
    loop2,        \* the loop task a later start_scheduler creates
    own,          \* the posts and drafts of the scheduler's own PostManager
    disk          \* posts.json and drafts.json, as last written

vars == <<now, post, created, posts, drafts, inflight, schedules, pc, scanNow,
          it, itLen, postStoreOk, schedStoreOk, result, invoked, config,
          templates, running, loop2, own, disk>>

pmVars == <<post, created, posts, drafts, inflight>>
loopVars == <<pc, scanNow, it, itLen, invoked>>
storeVars == <<postStoreOk, schedStoreOk>>
lifeVars == <<running, loop2>>
wireVars == <<own, disk>>

\* ------------------------------------------------------ dates and times
\* An instant is a number of half hours since 2024-01-01 00:00, a Monday:
\* every clock time the code names is a multiple of 30 minutes.
DayLen == 48

\* datetime.date(): the day an instant lies on, counted from day 0
DateOf(t) == t \div DayLen

\* date.replace(hour=0, minute=0, second=0, microsecond=0)
BaseDate(t) == DateOf(t) * DayLen

\* datetime.weekday(): 0 is Monday, 6 is Sunday
Weekday(t) == DateOf(t) % 7

\* the calendar: years are counted from 2024, months from 1
MonthLen(y, m) ==
    IF m = 2 THEN (IF y % 4 = 0 THEN 29 ELSE 28)
    ELSE IF m \in {4, 6, 9, 11} THEN 30 ELSE 31

\* the year, month and day of month of day d, counted on from the first day
\* of month m of year y
RECURSIVE YearMonthDay(_, _, _)
YearMonthDay(d, y, m) ==
    IF d < MonthLen(y, m)
    THEN [year |-> y, month |-> m, day |-> d + 1]
    ELSE YearMonthDay(d - MonthLen(y, m),
                      IF m = 12 THEN y + 1 ELSE y,
                      IF m = 12 THEN 1 ELSE m + 1)

\* the number of the day (y, m, day)
RECURSIVE DayNumber(_, _, _)
DayNumber(y, m, day) ==
    IF y = 0 /\ m = 1
    THEN day - 1
    ELSE LET py == IF m = 1 THEN y - 1 ELSE y
             pm == IF m = 1 THEN 12 ELSE m - 1
         IN DayNumber(py, pm, day + MonthLen(py, pm))

\* OptimalTimeSlot
OptimalTimeSlot == {"morning", "lunch", "evening", "night"}

\* suggest_optimal_times: base_date.replace(hour=, minute=) of a slot, as the
\* half hours after midnight: 08:00, 12:30, 19:00, 22:00
SlotClock(slot) ==
    CASE slot = "morning" -> 16
      [] slot = "lunch" -> 25
      [] slot = "evening" -> 38
      [] slot = "night" -> 44

\* _create_default_config: the optimal_time_slots of the default config
DefaultConfig == [optimal_time_slots |-> <<"morning", "evening">>]

\* list[:n]
Slice(seq, n) ==
    IF n >= 0
    THEN SubSeq(seq, 1, IF n < Len(seq) THEN n ELSE Len(seq))
    ELSE SubSeq(seq, 1, IF Len(seq) + n > 0 THEN Len(seq) + n ELSE 0)

\* faulty variant: a suggestion equal to now is kept
OptimalTimesInclusive(slots, date, n, t) ==
    LET suggestions == [i \in 1..Len(slots) |-> BaseDate(date) + SlotClock(slots[i])]
    IN Slice(SelectSeq(suggestions, LAMBDA x : x >= t), n)

\* suggest_optimal_times(date, n) with self.config.optimal_time_slots = slots
\* and datetime.now() = t
OptimalTimes(slots, date, n, t) ==
    IF slots = <<>>
    THEN <<>>
    ELSE LET suggestions ==
                 [i \in 1..Len(slots) |-> BaseDate(date) + SlotClock(slots[i])]
         IN Slice(SelectSeq(suggestions, LAMBDA x : x > t), n)

\* ------------------------------------------------------------ Post model
NoPost == [status |-> "none", scheduled_time |-> NoTime, posted_at |-> NoTime,
           error_message |-> NoMsg, post_type |-> "text",
           template_name |-> NoTemplate]

\* PostManager.get_post: is the id a key of either partition
Stored(p) == p \in posts \cup drafts

Ret(op, arg, ret) == [op |-> op, arg |-> arg, ret |-> ret]

\* faulty variant: every new post is a draft
NewDraft(t) ==
    [status |-> "draft", scheduled_time |-> t, posted_at |-> NoTime,
     error_message |-> NoMsg, post_type |-> "text",
     template_name |-> NoTemplate]

\* PostManager.create_post: the new Post object
NewPost(t) ==
    [status |-> IF t = NoTime THEN "draft" ELSE "scheduled",
     scheduled_time |-> t, posted_at |-> NoTime, error_message |-> NoMsg,
     post_type |-> "text", template_name |-> NoTemplate]

\* PostManager.create_post: the partition the new post is put in
NewPostPartition(t) == IF t = NoTime THEN "drafts" ELSE "posts"

CreatePost(t) ==
    /\ created < MaxPosts
    /\ LET p == created + 1 IN
        /\ created' = p
        /\ post' = [post EXCEPT ![p] = NewPost(t)]
        /\ drafts' = IF NewPostPartition(t) = "drafts" THEN drafts \cup {p} ELSE drafts
        /\ posts' = IF NewPostPartition(t) = "posts" THEN posts \cup {p} ELSE posts
        /\ result' = Ret("create_post", p, IF postStoreOk THEN "post" ELSE "raise")
    /\ UNCHANGED <<wireVars, lifeVars, config, templates, now, inflight, schedules, loopVars, storeVars>>

\* create_post of a manager with room for one more post
CreatePostWide(t) ==
    /\ created < MaxPosts + 1
    /\ LET p == created + 1 IN
        /\ created' = p
        /\ post' = [q \in DOMAIN post \cup {p} |-> IF q = p THEN NewPost(t) ELSE post[q]]
        /\ drafts' = IF NewPostPartition(t) = "drafts" THEN drafts \cup {p} ELSE drafts
        /\ posts' = IF NewPostPartition(t) = "posts" THEN posts \cup {p} ELSE posts
        /\ result' = Ret("create_post", p, IF postStoreOk THEN "post" ELSE "raise")
    /\ UNCHANGED <<wireVars, lifeVars, config, templates, now, inflight, schedules, loopVars, storeVars>>

\* the arguments create_post is called with
Texts == {"", "hello"}
PostTypeInputs == PostType \cup {"invalid_type"}

\* PostManager.create_post with its content and post_type arguments: neither
\* is looked at before the post is stored; a post_type that is no PostType
\* member has no .value for _post_to_dict, so save_data raises in this call
\* and in every later one while the post is held
CreatePostOf(text, ptype, tname, t) ==
    /\ created < MaxPosts
    /\ LET p == created + 1 IN
        /\ created' = p
        /\ post' = [post EXCEPT ![p] = [NewPost(t) EXCEPT !.post_type = ptype,
                                                          !.template_name = tname]]
        /\ drafts' = IF NewPostPartition(t) = "drafts" THEN drafts \cup {p} ELSE drafts
        /\ posts' = IF NewPostPartition(t) = "posts" THEN posts \cup {p} ELSE posts
        /\ result' = Ret("create_post", [id |-> p, text |-> text, post_type |-> ptype],
                         IF postStoreOk /\ ptype \in PostType THEN "post" ELSE "raise")
    /\ postStoreOk' = (postStoreOk /\ ptype \in PostType)
    /\ UNCHANGED <<wireVars, lifeVars, config, templates, now, inflight, schedules, loopVars, schedStoreOk>>

\* faulty variant: a post given a scheduled_time becomes scheduled
UpdatedPostRescheduled(po, kw) ==
    [f \in DOMAIN po |->
        IF f \in DOMAIN kw THEN kw[f]
        ELSE IF f = "status" /\ "scheduled_time" \in DOMAIN kw THEN "scheduled"
        ELSE po[f]]

\* PostManager.update_post: setattr of every supplied field; kw is a record
\* holding the supplied fields among status and scheduled_time
UpdatedPost(po, kw) ==
    [f \in DOMAIN po |-> IF f \in DOMAIN kw THEN kw[f] ELSE po[f]]

UpdateInputs ==
    [scheduled_time : Times \cup {NoTime}] \cup [status : PostStatus]

UpdatePost(p, kw) ==
    /\ IF Stored(p)
       THEN /\ post' = [post EXCEPT ![p] = UpdatedPost(@, kw)]
            /\ result' = Ret("update_post", p, IF postStoreOk THEN "post" ELSE "raise")
       ELSE /\ post' = post
            /\ result' = Ret("update_post", p, "raise")
    /\ UNCHANGED <<wireVars, lifeVars, config, templates, now, created, posts, drafts, inflight, schedules, loopVars, storeVars>>

\* a call awaiting the Publisher holds the Post object
Held(p) == p \in inflight \/ (pc = "await" /\ schedules[it].post_id = p)

\* faulty variant: the pending schedules of a deleted post are cancelled
DeletePostCascade(p) ==
    /\ posts' = posts \ {p}
    /\ post' = IF Stored(p) /\ ~Held(p) THEN [post EXCEPT ![p] = NoPost] ELSE post
    /\ drafts' = IF p \in posts THEN drafts ELSE drafts \ {p}
    /\ schedules' = [i \in DOMAIN schedules |->
                        IF Stored(p) /\ schedules[i].post_id = p
                           /\ schedules[i].status = "pending"
                        THEN [schedules[i] EXCEPT !.status = "cancelled"]
                        ELSE schedules[i]]
    /\ result' = Ret("delete_post", p,
                     IF ~Stored(p) THEN "false"
                     ELSE IF postStoreOk THEN "true" ELSE "raise")
    /\ UNCHANGED <<wireVars, lifeVars, config, templates, now, created, inflight, loopVars, storeVars>>

DeletePost(p) ==
    /\ posts' = posts \ {p}
    /\ post' = IF Stored(p) /\ ~Held(p) THEN [post EXCEPT ![p] = NoPost] ELSE post
    /\ drafts' = IF p \in posts THEN drafts ELSE drafts \ {p}
    /\ result' = Ret("delete_post", p,
                     IF ~Stored(p) THEN "false"
                     ELSE IF postStoreOk THEN "true" ELSE "raise")
    /\ UNCHANGED <<wireVars, lifeVars, config, templates, now, created, inflight, schedules, loopVars, storeVars>>

\* PostManager.schedule_post
PmScheduledPost(po, t) == [po EXCEPT !.scheduled_time = t, !.status = "scheduled"]

PmSchedulePost(p, t) ==
    /\ IF Stored(p)
       THEN /\ post' = [post EXCEPT ![p] = PmScheduledPost(@, t)]
            /\ posts' = posts \cup {p}
            /\ drafts' = drafts \ {p}
            /\ result' = Ret("pm_schedule_post", p, IF postStoreOk THEN "post" ELSE "raise")
       ELSE /\ UNCHANGED <<post, posts, drafts>>
            /\ result' = Ret("pm_schedule_post", p, "raise")
    /\ UNCHANGED <<wireVars, lifeVars, config, templates, now, created, inflight, schedules, loopVars, storeVars>>

\* faulty variant: a failed post keeps an empty error message
PostNowPostNoMessage(po, success, t, storeOk) ==
    IF success /\ storeOk
    THEN [po EXCEPT !.status = "posted", !.posted_at = t]
    ELSE [po EXCEPT !.status = "failed"]

\* faulty variant: a save that fails after a publish leaves the post posted
PostNowPostUnhandled(po, success, t, storeOk) ==
    IF success
    THEN [po EXCEPT !.status = "posted", !.posted_at = t]
    ELSE [po EXCEPT !.status = "failed",
                    !.error_message = IF storeOk THEN MsgXApi ELSE MsgPostSave]

\* PostManager.post_now after the Publisher returned `success`: the Post object
PostNowPost(po, success, t, storeOk) ==
    IF success
    THEN IF storeOk
         THEN [po EXCEPT !.status = "posted", !.posted_at = t]
         ELSE [po EXCEPT !.status = "failed", !.posted_at = t,
                         !.error_message = MsgPostSave]
    ELSE [po EXCEPT !.status = "failed",
                    !.error_message = IF storeOk THEN MsgXApi ELSE MsgPostSave]

\* PostManager.post_now after the Publisher returned: "true", "false", or the
\* message of the PostError it raises
PostNowOutcome(success, storeOk) ==
    IF ~storeOk THEN MsgPostSave ELSE IF success THEN "true" ELSE "false"

\* faulty variant: the draft entry is kept when the post moves
PostNowDraftsKept(p, success) == drafts

\* PostManager.post_now: on success a draft moves to the active partition
PostNowPosts(p, success) ==
    IF success /\ p \in drafts THEN posts \cup {p} ELSE posts
PostNowDrafts(p, success) ==
    IF success /\ p \in drafts THEN drafts \ {p} ELSE drafts

\* a direct call of post_now, up to the await of the Publisher
PostNowCall(p) ==
    /\ p \notin inflight
    /\ IF Stored(p)
       THEN /\ inflight' = inflight \cup {p}
            /\ result' = result
       ELSE /\ inflight' = inflight
            /\ result' = Ret("post_now", p, MsgNotFound)
    /\ UNCHANGED <<wireVars, lifeVars, config, templates, now, post, created, posts, drafts, schedules, loopVars, storeVars>>

\* the Publisher returns to a direct call of post_now
PostNowReturn(p, success) ==
    /\ p \in inflight
    /\ inflight' = inflight \ {p}
    /\ post' = [post EXCEPT ![p] = PostNowPost(@, success, now, postStoreOk)]
    /\ posts' = PostNowPosts(p, success)
    /\ drafts' = PostNowDrafts(p, success)
    /\ result' = Ret("post_now", p, PostNowOutcome(success, postStoreOk))
    /\ UNCHANGED <<wireVars, lifeVars, config, templates, now, created, schedules, loopVars, storeVars>>

\* ---------------------------------------------------------- PostScheduler
\* faulty variant: the schedule_type argument is dropped for the default
NewScheduleOnce(p, t, stype) ==
    [post_id |-> p, scheduled_time |-> t, schedule_type |-> "once",
     status |-> "pending", executed_at |-> NoTime, error_message |-> NoMsg]

\* the PostSchedule that schedule_post builds from its arguments
NewScheduleOf(p, t, stype) ==
    [post_id |-> p, scheduled_time |-> t, schedule_type |-> stype,
     status |-> "pending", executed_at |-> NoTime, error_message |-> NoMsg]

\* schedule_post without a schedule_type: the default is ScheduleType.ONCE
NewSchedule(p, t) == NewScheduleOf(p, t, "once")

\* faulty variant: the target post is marked scheduled as well
SchedulePostSyncing(p, t, cap) ==
    /\ Len(schedules) < cap
    /\ schedules' = Append(schedules, NewSchedule(p, t))
    /\ post' = IF Stored(p)
               THEN [post EXCEPT ![p] = PmScheduledPost(@, t)]
               ELSE post
    /\ result' = Ret("schedule_post", Len(schedules) + 1,
                     IF schedStoreOk THEN "schedule" ELSE "raise")
    /\ UNCHANGED <<wireVars, lifeVars, config, templates, now, created, posts, drafts,
                   inflight, loopVars, storeVars>>

\* PostScheduler.schedule_post: the target post need not exist
SchedulePost(p, t, cap) ==
    /\ Len(schedules) < cap
    /\ schedules' = Append(schedules, NewSchedule(p, t))
    /\ result' = Ret("schedule_post", Len(schedules) + 1,
                     IF schedStoreOk THEN "schedule" ELSE "raise")
    /\ UNCHANGED <<wireVars, lifeVars, config, templates, now, pmVars, loopVars, storeVars>>

\* the schedule_type arguments schedule_post is called with
ScheduleTypeInputs == ScheduleType \cup {"invalid_type"}

\* PostScheduler.schedule_post with its schedule_type argument, which is
\* stored as given; _schedule_to_dict writes str() of a value that is no
\* ScheduleType member, so save_data succeeds
SchedulePostOf(p, t, stype, cap) ==
    /\ Len(schedules) < cap
    /\ schedules' = Append(schedules, NewScheduleOf(p, t, stype))
    /\ result' = Ret("schedule_post", [id |-> Len(schedules) + 1, schedule_type |-> stype],
                     IF schedStoreOk THEN "schedule" ELSE "raise")
    /\ UNCHANGED <<wireVars, lifeVars, config, templates, now, pmVars, loopVars, storeVars>>

\* faulty variant: any schedule that exists is cancelled
CancelAnySchedules(sch, sid) ==
    IF sid \in DOMAIN sch
    THEN [sch EXCEPT ![sid].status = "cancelled"]
    ELSE sch

\* PostScheduler.cancel_schedule: the schedules after the call
CancelSchedules(sch, sid) ==
    IF sid \in DOMAIN sch /\ sch[sid].status = "pending"
    THEN [sch EXCEPT ![sid].status = "cancelled"]
    ELSE sch

\* PostScheduler.cancel_schedule: what the call returns
CancelReturn(sch, sid, storeOk) ==
    IF sid \notin DOMAIN sch THEN "false"
    ELSE IF sch[sid].status = "pending"
         THEN IF storeOk THEN "true" ELSE "raise"
         ELSE "false"

CancelSchedule(sid) ==
    /\ schedules' = CancelSchedules(schedules, sid)
    /\ result' = Ret("cancel_schedule", sid, CancelReturn(schedules, sid, schedStoreOk))
    /\ UNCHANGED <<wireVars, lifeVars, config, templates, now, pmVars, loopVars, storeVars>>

\* get_statistics: the number of schedules with status st
StatusCount(sch, st) == Cardinality({i \in DOMAIN sch : sch[i].status = st})

\* faulty variant: cancelled schedules are left out of the total
GetStatisticsLive(sch) ==
    LET total == Len(sch) - StatusCount(sch, "cancelled")
        executed == StatusCount(sch, "executed")
    IN [total_schedules |-> total,
        pending_schedules |-> StatusCount(sch, "pending"),
        executed_schedules |-> executed,
        failed_schedules |-> StatusCount(sch, "failed"),
        cancelled_schedules |-> StatusCount(sch, "cancelled"),
        success_rate |-> IF total > 0
                         THEN [num |-> executed * 100, den |-> total]
                         ELSE [num |-> 0, den |-> 1]]

\* PostScheduler.get_statistics; success_rate, a float in the code, is kept as
\* the fraction num / den
GetStatistics(sch) ==
    LET total == Len(sch)
        executed == StatusCount(sch, "executed")
    IN [total_schedules |-> total,
        pending_schedules |-> StatusCount(sch, "pending"),
        executed_schedules |-> executed,
        failed_schedules |-> StatusCount(sch, "failed"),
        cancelled_schedules |-> StatusCount(sch, "cancelled"),
        success_rate |-> IF total > 0
                         THEN [num |-> executed * 100, den |-> total]
                         ELSE [num |-> 0, den |-> 1]]

\* ------------------------------------------------- the background loop
\* faulty variant: the pass does not compare the time
DueAnyTime(s, t) == s.status = "pending"

\* faulty variant: the pass does not look at the status
DueAnyStatus(s, t) == s.scheduled_time <= t

\* faulty variant: a schedule is due only after its time has passed
DueStrictlyAfter(s, t) == s.status = "pending" /\ s.scheduled_time < t

\* _check_scheduled_posts: the condition of the for loop's if
Due(s, t) == s.status = "pending" /\ s.scheduled_time <= t

\* faulty variant: a success is not stamped with executed_at
CheckedScheduleNoStamp(s, outcome, t, storeOk) ==
    IF outcome = "true" /\ storeOk
    THEN [s EXCEPT !.status = "executed"]
    ELSE [s EXCEPT !.status = "failed", !.error_message = MsgGeneric]

\* faulty variant: an exception is recorded with the generic message
CheckedScheduleGeneric(s, outcome, t, storeOk) ==
    IF outcome = "true" /\ storeOk
    THEN [s EXCEPT !.status = "executed", !.executed_at = t]
    ELSE [s EXCEPT !.status = "failed", !.error_message = MsgGeneric]

\* faulty variant: the loop leaves a schedule cancelled meanwhile as it is
CheckedScheduleUnlessCancelled(s, outcome, t, storeOk) ==
    IF s.status = "cancelled" THEN s
    ELSE IF outcome = "true"
    THEN IF storeOk
         THEN [s EXCEPT !.status = "executed", !.executed_at = t]
         ELSE [s EXCEPT !.status = "failed", !.executed_at = t,
                        !.error_message = MsgSchedSave]
    ELSE IF outcome = "false"
    THEN [s EXCEPT !.status = "failed",
                   !.error_message = IF storeOk THEN MsgGeneric ELSE MsgSchedSave]
    ELSE [s EXCEPT !.status = "failed", !.error_message = outcome]

\* _check_scheduled_posts: what the loop writes to a schedule once post_now
\* has returned "true" or "false" or raised (outcome is then the message)
CheckedSchedule(s, outcome, t, storeOk) ==
    IF outcome = "true"
    THEN IF storeOk
         THEN [s EXCEPT !.status = "executed", !.executed_at = t]
         ELSE [s EXCEPT !.status = "failed", !.executed_at = t,
                        !.error_message = MsgSchedSave]
    ELSE IF outcome = "false"
    THEN [s EXCEPT !.status = "failed",
                   !.error_message = IF storeOk THEN MsgGeneric ELSE MsgSchedSave]
    ELSE [s EXCEPT !.status = "failed", !.error_message = outcome]

\* faulty variant: a store write that raises ends the loop task
RECURSIVE ScanCrashing(_, _, _, _, _)
ScanCrashing(sch, i, size, t, called) ==
    IF Len(sch) # size
    THEN [schedules |-> sch, pc |-> "sleep", it |-> 0, called |-> called,
          end |-> "size_error"]
    ELSE IF i >= Len(sch)
    THEN [schedules |-> sch, pc |-> "sleep", it |-> 0, called |-> called,
          end |-> "done"]
    ELSE IF Due(sch[i + 1], t)
    THEN IF Stored(sch[i + 1].post_id)
         THEN [schedules |-> sch, pc |-> "await", it |-> i + 1,
               called |-> called \cup {i + 1}, end |-> "none"]
         ELSE LET f == [sch EXCEPT ![i + 1] =
                           CheckedSchedule(@, MsgNotFound, t, schedStoreOk)]
              IN IF schedStoreOk
                 THEN ScanCrashing(f, i + 1, size, t, called \cup {i + 1})
                 ELSE [schedules |-> f, pc |-> "done", it |-> 0,
                       called |-> called \cup {i + 1}, end |-> "save_error"]
    ELSE ScanCrashing(sch, i + 1, size, t, called)

\* _check_scheduled_posts: the for loop run from iterator position i until it
\* awaits the Publisher, ends, or is left by an exception.  `size` is the
\* dict's size when the iterator was made: a dict whose size changed raises
\* RuntimeError at the next step of the iteration.
RECURSIVE Scan(_, _, _, _, _)
Scan(sch, i, size, t, called) ==
    IF Len(sch) # size
    THEN [schedules |-> sch, pc |-> "sleep", it |-> 0, called |-> called,
          end |-> "size_error"]
    ELSE IF i >= Len(sch)
    THEN [schedules |-> sch, pc |-> "sleep", it |-> 0, called |-> called,
          end |-> "done"]
    ELSE IF Due(sch[i + 1], t)
    THEN IF Stored(sch[i + 1].post_id)
         THEN [schedules |-> sch, pc |-> "await", it |-> i + 1,
               called |-> called \cup {i + 1}, end |-> "none"]
         ELSE LET f == [sch EXCEPT ![i + 1] =
                           CheckedSchedule(@, MsgNotFound, t, schedStoreOk)]
              IN IF schedStoreOk
                 THEN Scan(f, i + 1, size, t, called \cup {i + 1})
                 ELSE [schedules |-> f, pc |-> "sleep", it |-> 0,
                       called |-> called \cup {i + 1}, end |-> "save_error"]
    ELSE Scan(sch, i + 1, size, t, called)

\* _scheduler_loop wakes from its sleep and starts a pass
ScanBegin ==
    /\ pc = "sleep"
    /\ running
    /\ LET r == Scan(schedules, 0, Len(schedules), now, {}) IN
        /\ schedules' = r.schedules
        /\ pc' = r.pc
        /\ it' = r.it
        /\ invoked' = invoked \cup r.called
        /\ scanNow' = IF r.pc = "await" THEN now ELSE 0
        /\ itLen' = IF r.pc = "await" THEN Len(schedules) ELSE 0
    /\ UNCHANGED <<wireVars, lifeVars, config, templates, now, pmVars, storeVars, result>>

\* the Publisher returns to the post_now the pass awaits
ScanPublishReturn(success) ==
    /\ pc = "await"
    /\ LET p == schedules[it].post_id
           outcome == PostNowOutcome(success, postStoreOk)
           s1 == [schedules EXCEPT ![it] =
                     CheckedSchedule(@, outcome, scanNow, schedStoreOk)]
           r == IF schedStoreOk
                THEN Scan(s1, it, itLen, scanNow, {})
                ELSE [schedules |-> s1, pc |-> "sleep", it |-> 0, called |-> {},
                      end |-> "save_error"]
       IN
        /\ post' = [post EXCEPT ![p] = PostNowPost(@, success, now, postStoreOk)]
        /\ posts' = PostNowPosts(p, success)
        /\ drafts' = PostNowDrafts(p, success)
        /\ schedules' = r.schedules
        /\ pc' = r.pc
        /\ it' = r.it
        /\ invoked' = invoked \cup r.called
        /\ scanNow' = IF r.pc = "await" THEN scanNow ELSE 0
        /\ itLen' = IF r.pc = "await" THEN itLen ELSE 0
    /\ UNCHANGED <<wireVars, lifeVars, config, templates, now, created, inflight, storeVars, result>>

\* ------------------------------------------------------- start and stop
\* no second task
NoLoop == [pc |-> "none", it |-> 0, itLen |-> 0, scanNow |-> 0]

\* a task that exists and has not left its while loop
Live(p) == p \in {"sleep", "await"}

\* _scheduler_loop: the task wakes, finds running false and ends
LoopExit ==
    /\ pc = "sleep"
    /\ ~running
    /\ pc' = "done"
    /\ UNCHANGED <<wireVars, lifeVars, config, templates, now, pmVars, schedules, scanNow, it,
                   itLen, invoked, storeVars, result>>

\* PostScheduler.start_scheduler inside a running event loop: nothing when
\* running is set; else a new task is created, whatever became of the old one
StartScheduler ==
    /\ IF running
       THEN UNCHANGED <<running, loop2, pc>>
       ELSE /\ running' = TRUE
            /\ IF pc = "done"
               THEN pc' = "sleep" /\ loop2' = loop2
               ELSE /\ ~Live(loop2.pc)
                    /\ loop2' = [NoLoop EXCEPT !.pc = "sleep"]
                    /\ pc' = pc
    /\ UNCHANGED <<wireVars, config, templates, now, pmVars, schedules, scanNow, it, itLen,
                   invoked, storeVars, result>>

\* PostScheduler.stop_scheduler
StopScheduler ==
    /\ running' = FALSE
    /\ UNCHANGED <<wireVars, loop2, config, templates, now, pmVars, schedules, loopVars,
                   storeVars, result>>

\* the second task wakes, finds running false and ends
Scan2Exit ==
    /\ loop2.pc = "sleep"
    /\ ~running
    /\ loop2' = [NoLoop EXCEPT !.pc = "done"]
    /\ UNCHANGED <<wireVars, running, config, templates, now, pmVars, schedules, loopVars,
                   storeVars, result>>

\* the second task starts a pass
Scan2Begin ==
    /\ loop2.pc = "sleep"
    /\ running
    /\ LET r == Scan(schedules, 0, Len(schedules), now, {}) IN
        /\ schedules' = r.schedules
        /\ invoked' = invoked \cup r.called
        /\ loop2' = IF r.pc = "await"
                    THEN [pc |-> "await", it |-> r.it, itLen |-> Len(schedules),
                          scanNow |-> now]
                    ELSE [NoLoop EXCEPT !.pc = "sleep"]
    /\ UNCHANGED <<wireVars, running, config, templates, now, pmVars, pc, scanNow, it, itLen,
                   storeVars, result>>

\* the Publisher returns to the post_now the second task's pass awaits
Scan2PublishReturn(success) ==
    /\ loop2.pc = "await"
    /\ LET p == schedules[loop2.it].post_id
           outcome == PostNowOutcome(success, postStoreOk)
           s1 == [schedules EXCEPT ![loop2.it] =
                     CheckedSchedule(@, outcome, loop2.scanNow, schedStoreOk)]
           r == IF schedStoreOk
                THEN Scan(s1, loop2.it, loop2.itLen, loop2.scanNow, {})
                ELSE [schedules |-> s1, pc |-> "sleep", it |-> 0, called |-> {},
                      end |-> "save_error"]
       IN
        /\ post' = [post EXCEPT ![p] = PostNowPost(@, success, now, postStoreOk)]
        /\ posts' = PostNowPosts(p, success)
        /\ drafts' = PostNowDrafts(p, success)
        /\ schedules' = r.schedules
        /\ invoked' = invoked \cup r.called
        /\ loop2' = IF r.pc = "await"
                    THEN [loop2 EXCEPT !.it = r.it]
                    ELSE [NoLoop EXCEPT !.pc = "sleep"]
    /\ UNCHANGED <<wireVars, running, config, templates, now, created, inflight, pc, scanNow,
                   it, itLen, storeVars, result>>

\* ----------------------------------------------------- config and advisor
\* the lists of day-parts a config is given in the runs
SlotLists ==
    {<<>>, <<"morning", "evening">>, <<"night", "lunch">>,
     <<"morning", "lunch", "evening", "night">>}

\* the instants the clock is read at in the runs of the advisor
NowPoints == {0, 16, DayLen + 38, 3 * DayLen}

\* the dates suggest_optimal_times is asked about
SuggestDates == {5, DayLen + 20, 2 * DayLen + 47}

\* PostScheduler.update_config(optimal_time_slots=slots)
UpdateConfig(slots) ==
    /\ config' = [config EXCEPT !.optimal_time_slots = slots]
    /\ UNCHANGED <<wireVars, lifeVars, templates, now, pmVars, schedules, loopVars, storeVars, result>>

\* create_recurring_schedule: the step to the next month; datetime.replace
\* raises ValueError (here NoTime) when the month has no such day
NextMonth(cur) ==
    LET c == YearMonthDay(DateOf(cur), 0, 1)
        y == IF c.month = 12 THEN c.year + 1 ELSE c.year
        m == IF c.month = 12 THEN 1 ELSE c.month + 1
    IN IF c.day > MonthLen(y, m)
       THEN NoTime
       ELSE DayNumber(y, m, c.day) * DayLen + (cur % DayLen)

\* create_recurring_schedule: current_date after the day was handled
NextDate(type, cur) ==
    CASE type = "daily" -> cur + DayLen
      [] type = "weekly" -> cur + 7 * DayLen
      [] type = "monthly" -> NextMonth(cur)
      [] OTHER -> cur

\* faulty variant: the weekday is not looked at
DaySkippedNever(cfg, cur) == FALSE

\* create_recurring_schedule: the weekday check
DaySkipped(cfg, cur) ==
    cfg.days_of_week # {} /\ Weekday(cur) \notin cfg.days_of_week

\* create_recurring_schedule: how many of a day's k optimal times get a
\* schedule when the list holds `have` schedules: the for loop breaks after
\* the append that brings the list to max_posts_per_day or beyond
DayCount(k, have, max) ==
    IF k = 0 THEN 0
    ELSE IF max - have <= 1 THEN 1
    ELSE IF max - have < k THEN max - have ELSE k

\* create_recurring_schedule: the while loop from current_date = cur with the
\* scheduled times of the schedules made so far; t is datetime.now(), slots
\* self.config.optimal_time_slots, tmplOk whether create_post_from_template
\* gives a post.  The outcome is "return", "raise", or "hang" when
\* current_date does not move and the loop condition stays true.
RECURSIVE Generate(_, _, _, _, _, _)
Generate(cfg, cur, times, t, slots, tmplOk) ==
    IF cur > cfg.end_time
    THEN [outcome |-> "return", times |-> times]
    ELSE IF DaySkipped(cfg, cur)
    THEN Generate(cfg, cur + DayLen, times, t, slots, tmplOk)
    ELSE LET opt == OptimalTimes(slots, cur, 3, t)
             k == DayCount(Len(opt), Len(times), cfg.max_posts_per_day)
             times2 == times \o SubSeq(opt, 1, k)
             nxt == NextDate(cfg.schedule_type, cur)
         IN IF k > 0 /\ ~tmplOk
            THEN [outcome |-> "raise", times |-> times]
            ELSE IF nxt = NoTime
            THEN [outcome |-> "raise", times |-> times2]
            ELSE IF nxt = cur
            THEN [outcome |-> "hang", times |-> times2]
            ELSE Generate(cfg, nxt, times2, t, slots, tmplOk)

\* the windows (start_time, end_time) of the configs in the runs: three days
\* from Monday 1 January 05:00; Friday 5 to Saturday 13 January; Wednesday
\* 31 January to 2 March; Monday 15 January to 20 February; an end before
\* the start
Windows ==
    {<<10, 2 * DayLen + 20>>, <<4 * DayLen + 18, 13 * DayLen>>,
     <<30 * DayLen, 61 * DayLen>>, <<14 * DayLen + 10, 50 * DayLen>>,
     <<5 * DayLen, 4 * DayLen>>}

\* ScheduleConfig: the configs passed to create_recurring_schedule
Configs ==
    {[schedule_type |-> ty, start_time |-> w[1], end_time |-> w[2],
      days_of_week |-> dow, optimal_time_slots |-> sl, max_posts_per_day |-> mx] :
        ty \in {"once", "daily", "weekly", "monthly"}, w \in Windows,
        dow \in {{}, {5, 6}, {0}}, sl \in {<<"lunch">>, <<"morning", "evening">>},
        mx \in {1, 2, 5}}

\* faulty variant: a run that raises takes back what it made
CreateRecurringScheduleAtomic(cfg, tmplOk) ==
    /\ result.op = "none"
    /\ postStoreOk /\ schedStoreOk
    /\ LET r == Generate(cfg, cfg.start_time, <<>>, now,
                         config.optimal_time_slots, tmplOk)
           n == IF r.outcome = "raise" THEN 0 ELSE Len(r.times)
           ids == (created + 1)..(created + n)
       IN
        /\ created' = created + n
        /\ post' = [p \in DOMAIN post \cup ids |->
                        IF p \in ids THEN NewPost(NoTime) ELSE post[p]]
        /\ drafts' = drafts \cup ids
        /\ schedules' = schedules \o
               [i \in 1..n |->
                    NewScheduleOf(created + i, r.times[i], cfg.schedule_type)]
        /\ result' = Ret("create_recurring_schedule",
                         [config |-> cfg, now |-> now, tmplOk |-> tmplOk,
                          slots |-> config.optimal_time_slots],
                         [outcome |-> r.outcome, times |-> r.times,
                          schedules |-> IF r.outcome = "return"
                                        THEN [i \in 1..n |-> Len(schedules) + i]
                                        ELSE << >>])
    /\ UNCHANGED <<wireVars, lifeVars, config, templates, now, posts, inflight, loopVars, storeVars>>

\* PostScheduler.create_recurring_schedule(post_template, cfg); each schedule
\* gets a post of its own, a draft made from the template.  The call and what
\* it read are kept with its outcome and the scheduled times it made.  The
\* runs make one such call, on a scheduler that has returned nothing yet.
CreateRecurringSchedule(cfg, tmplOk) ==
    /\ result.op = "none"
    /\ postStoreOk /\ schedStoreOk
    /\ LET r == Generate(cfg, cfg.start_time, <<>>, now,
                         config.optimal_time_slots, tmplOk)
           n == Len(r.times)
           ids == (created + 1)..(created + n)
       IN
        /\ created' = created + n
        /\ post' = [p \in DOMAIN post \cup ids |->
                        IF p \in ids THEN NewPost(NoTime) ELSE post[p]]
        /\ drafts' = drafts \cup ids
        /\ schedules' = schedules \o
               [i \in 1..n |->
                    NewScheduleOf(created + i, r.times[i], cfg.schedule_type)]
        /\ result' = Ret("create_recurring_schedule",
                         [config |-> cfg, now |-> now, tmplOk |-> tmplOk,
                          slots |-> config.optimal_time_slots],
                         [outcome |-> r.outcome, times |-> r.times,
                          schedules |-> IF r.outcome = "return"
                                        THEN [i \in 1..n |-> Len(schedules) + i]
                                        ELSE << >>])
    /\ UNCHANGED <<wireVars, lifeVars, config, templates, now, posts, inflight, loopVars, storeVars>>

\* PostScheduler.suggest_optimal_times(date, n); the call and what it read
\* are kept with what it returned
SuggestOptimalTimes(date, n) ==
    /\ result' = Ret("suggest_optimal_times",
                     [date |-> date, n |-> n, now |-> now,
                      slots |-> config.optimal_time_slots],
                     OptimalTimes(config.optimal_time_slots, date, n, now))
    /\ UNCHANGED <<wireVars, lifeVars, config, templates, now, pmVars, schedules, loopVars, storeVars>>

\* ------------------------------------------------------------ persistence
\* JSON null
JsonNull == <<>>

\* datetime.isoformat()
IsoFormat(t) == <<"iso", t>>

\* `x.isoformat() if x else None`
OptIsoFormat(t) == IF t # NoTime THEN IsoFormat(t) ELSE JsonNull

\* `datetime.fromisoformat(d) if d else None`
OptFromIsoFormat(j) == IF j # JsonNull THEN j[2] ELSE NoTime

\* PostManager._post_to_dict
PostToDict(po) ==
    [status |-> po.status,
     scheduled_time |-> OptIsoFormat(po.scheduled_time),
     posted_at |-> OptIsoFormat(po.posted_at),
     error_message |-> po.error_message,
     post_type |-> po.post_type,
     template_name |-> po.template_name]

\* PostManager._dict_to_post
DictToPost(d) ==
    [status |-> d.status,
     scheduled_time |-> OptFromIsoFormat(d.scheduled_time),
     posted_at |-> OptFromIsoFormat(d.posted_at),
     error_message |-> d.error_message,
     post_type |-> d.post_type,
     template_name |-> d.template_name]

\* PostScheduler._schedule_to_dict
ScheduleToDict(s) ==
    [post_id |-> s.post_id,
     scheduled_time |-> IsoFormat(s.scheduled_time),
     schedule_type |-> s.schedule_type,
     status |-> s.status,
     executed_at |-> OptIsoFormat(s.executed_at),
     error_message |-> s.error_message]

\* PostScheduler._dict_to_schedule; ScheduleType(v) of the value a member
\* wrote is that member
DictToSchedule(d) ==
    [post_id |-> d.post_id,
     scheduled_time |-> d.scheduled_time[2],
     schedule_type |-> d.schedule_type,
     status |-> d.status,
     executed_at |-> OptFromIsoFormat(d.executed_at),
     error_message |-> d.error_message]

\* the stores as the manager and the scheduler hold them in memory
Memory ==
    [posts |-> [p \in posts |-> post[p]],
     drafts |-> [p \in drafts |-> post[p]],
     templates |-> templates,
     schedules |-> schedules]

\* PostManager.save_data and PostScheduler.save_data on writable files: the
\* posts file is written first; asdict leaves a template's PostType member in
\* the dict, json.dump raises on it with the templates file cut short and the
\* drafts file not written
SaveData(mem) ==
    [raised |-> mem.templates # {},
     posts |-> [p \in DOMAIN mem.posts |-> PostToDict(mem.posts[p])],
     templates |-> [truncated |-> mem.templates # {}, names |-> {}],
     drafts |-> IF mem.templates # {} THEN << >>
                ELSE [p \in DOMAIN mem.drafts |-> PostToDict(mem.drafts[p])],
     schedules |-> [i \in DOMAIN mem.schedules |-> ScheduleToDict(mem.schedules[i])]]

\* a fresh PostManager and PostScheduler over the files: a templates file that
\* does not parse sends load_data to _create_default_data, whose save_data
\* raises out of the constructor
LoadData(files) ==
    IF files.templates.truncated
    THEN [outcome |-> "raise"]
    ELSE [outcome |-> "loaded",
          posts |-> [p \in DOMAIN files.posts |-> DictToPost(files.posts[p])],
          drafts |-> [p \in DOMAIN files.drafts |-> DictToPost(files.drafts[p])],
          templates |-> files.templates.names,
          schedules |-> [i \in DOMAIN files.schedules |->
                            DictToSchedule(files.schedules[i])]]

TemplateNames == {"custom_template"}

\* PostManager.add_template: the template is held, then save_data raises, and
\* raises in every later call of the manager
AddTemplate(name) ==
    /\ templates' = templates \cup {name}
    /\ postStoreOk' = FALSE
    /\ result' = Ret("add_template", name, "raise")
    /\ UNCHANGED <<wireVars, lifeVars, config, now, pmVars, schedules, loopVars, schedStoreOk>>

\* the PostType member a held template was made with
TemplatePostType(name) == "image"

\* the template names create_post_from_template is called with
TemplateInputs == TemplateNames \cup {"unknown_template"}

\* PostManager.create_post_from_template; varsOk: the keyword arguments cover
\* the placeholders of the template body (str.format raises KeyError
\* otherwise).  The post is made by create_post without a scheduled_time.
CreatePostFromTemplate(name, varsOk) ==
    /\ IF name \notin templates \/ ~varsOk
       THEN /\ result' = Ret("create_post_from_template", name, "raise")
            /\ UNCHANGED <<post, created, posts, drafts>>
       ELSE /\ created < MaxPosts
            /\ LET p == created + 1 IN
                /\ created' = p
                /\ post' = [post EXCEPT ![p] =
                               [NewPost(NoTime) EXCEPT
                                   !.post_type = TemplatePostType(name),
                                   !.template_name = name]]
                /\ drafts' = drafts \cup {p}
                /\ posts' = posts
                /\ result' = Ret("create_post_from_template", name,
                                 IF postStoreOk THEN "post" ELSE "raise")
    /\ UNCHANGED <<wireVars, lifeVars, config, templates, now, inflight, schedules, loopVars, storeVars>>

\* ------------------------------------------------------ the wired system
\* post_management.py makes one PostManager for the endpoints, and the
\* PostScheduler it makes next constructs a PostManager of its own; both use
\* the default data directory.  post, posts and drafts are the endpoints'
\* manager here, own is the scheduler's, disk is the files they share.
NoPosts == [posts |-> << >>, drafts |-> << >>]

\* what save_data of the endpoints' manager writes
ApiFiles(po, ps, ds) ==
    [posts |-> [p \in ps |-> PostToDict(po[p])],
     drafts |-> [p \in ds |-> PostToDict(po[p])]]

\* what save_data of the scheduler's manager writes
OwnFiles(mem) ==
    [posts |-> [p \in DOMAIN mem.posts |-> PostToDict(mem.posts[p])],
     drafts |-> [p \in DOMAIN mem.drafts |-> PostToDict(mem.drafts[p])]]

\* load_data of a manager
LoadedPosts(files) ==
    [posts |-> [p \in DOMAIN files.posts |-> DictToPost(files.posts[p])],
     drafts |-> [p \in DOMAIN files.drafts |-> DictToPost(files.drafts[p])]]

\* get_post of the scheduler's manager
OwnStored(mem, p) == p \in DOMAIN mem.posts \cup DOMAIN mem.drafts

\* post_now of the scheduler's manager on a post it holds, the Publisher
\* answering `success`: its memory after the call
OwnPostNow(mem, p, success, t) ==
    LET old == IF p \in DOMAIN mem.posts THEN mem.posts[p] ELSE mem.drafts[p]
        new == PostNowPost(old, success, t, TRUE)
        toPosts == p \in DOMAIN mem.posts \/ success
    IN [posts |-> [q \in DOMAIN mem.posts \cup (IF toPosts THEN {p} ELSE {}) |->
                      IF q = p THEN new ELSE mem.posts[q]],
        drafts |-> [q \in DOMAIN mem.drafts \ (IF toPosts THEN {p} ELSE {}) |->
                      IF q = p THEN new ELSE mem.drafts[q]]]

\* _check_scheduled_posts from schedule i on, run to its end: the Publisher
\* answers `success` to every call of the pass
RECURSIVE WiredScan(_, _, _, _, _, _)
WiredScan(sch, i, t, mem, files, success) ==
    IF i > Len(sch)
    THEN [schedules |-> sch, own |-> mem, disk |-> files]
    ELSE IF ~Due(sch[i], t)
    THEN WiredScan(sch, i + 1, t, mem, files, success)
    ELSE IF OwnStored(mem, sch[i].post_id)
    THEN LET mem2 == OwnPostNow(mem, sch[i].post_id, success, t)
             sch2 == [sch EXCEPT ![i] =
                         CheckedSchedule(@, IF success THEN "true" ELSE "false", t, TRUE)]
         IN WiredScan(sch2, i + 1, t, mem2, OwnFiles(mem2), success)
    ELSE WiredScan([sch EXCEPT ![i] = CheckedSchedule(@, MsgNotFound, t, TRUE)],
                   i + 1, t, mem, files, success)

\* a pass of the loop in the wired system
WiredPass(success) ==
    /\ pc = "sleep"
    /\ running
    /\ LET r == WiredScan(schedules, 1, now, own, disk, success) IN
        /\ schedules' = r.schedules
        /\ own' = r.own
        /\ disk' = r.disk
    /\ UNCHANGED <<lifeVars, config, templates, now, pmVars, loopVars, storeVars, result>>

\* POST /posts: create_post of the endpoints' manager, then schedule_post of
\* the scheduler when a scheduled_time is given
ApiCreatePost(t) ==
    /\ created < MaxPosts + 1
    /\ t # NoTime => Len(schedules) < MaxSchedules + 1
    /\ LET p == created + 1
           po == [q \in DOMAIN post \cup {p} |-> IF q = p THEN NewPost(t) ELSE post[q]]
           ds == IF NewPostPartition(t) = "drafts" THEN drafts \cup {p} ELSE drafts
           ps == IF NewPostPartition(t) = "posts" THEN posts \cup {p} ELSE posts
       IN
        /\ created' = p
        /\ post' = po
        /\ drafts' = ds
        /\ posts' = ps
        /\ disk' = ApiFiles(po, ps, ds)
        /\ schedules' = IF t = NoTime THEN schedules
                        ELSE Append(schedules, NewSchedule(p, t))
        /\ result' = Ret("api_create_post", p, "post")
    /\ UNCHANGED <<own, lifeVars, config, templates, now, inflight, loopVars, storeVars>>

\* DELETE /posts/{id}: delete_post of the endpoints' manager
ApiDeletePost(p) ==
    /\ Stored(p)
    /\ posts' = posts \ {p}
    /\ drafts' = drafts \ {p}
    /\ post' = [post EXCEPT ![p] = NoPost]
    /\ disk' = ApiFiles(post', posts', drafts')
    /\ result' = Ret("api_delete_post", p, "true")
    /\ UNCHANGED <<own, lifeVars, config, templates, now, created, inflight,
                   schedules, loopVars, storeVars>>

\* the process is started again: both managers load the files; the
\* scheduler loads its schedules, which it has written at every change
Restart ==
    /\ own' = LoadedPosts(disk)
    /\ posts' = DOMAIN disk.posts
    /\ drafts' = DOMAIN disk.drafts
    /\ post' = [p \in DOMAIN post |->
                  IF p \in DOMAIN disk.posts THEN DictToPost(disk.posts[p])
                  ELSE IF p \in DOMAIN disk.drafts THEN DictToPost(disk.drafts[p])
                  ELSE NoPost]
    /\ result' = Ret("none", 0, "none")
    /\ UNCHANGED <<disk, lifeVars, config, templates, now, created, inflight,
                   schedules, loopVars, storeVars>>

\* ------------------------------------------------------------ environment
\* time passes until a later instant
Advance(t) ==
    /\ t > now
    /\ now' = t
    /\ UNCHANGED <<wireVars, lifeVars, config, templates, pmVars, schedules, loopVars, storeVars, result>>

Tick ==
    /\ now < MaxTime
    /\ now' = now + 1
    /\ UNCHANGED <<wireVars, lifeVars, config, templates, pmVars, schedules, loopVars, storeVars, result>>

\* a store's file becomes unwritable, or writable again
StoreFault ==
    /\ \E a, b \in BOOLEAN :
        /\ <<a, b>> # <<postStoreOk, schedStoreOk>>
        /\ postStoreOk' = a
        /\ schedStoreOk' = b
    /\ UNCHANGED <<wireVars, lifeVars, config, templates, now, pmVars, schedules, loopVars, result>>

\* ----------------------------------------------------------- specification
Init ==
    /\ now = 0
    /\ post = [p \in PostIds |-> NoPost]
    /\ created = 0
    /\ posts = {}
    /\ drafts = {}
    /\ inflight = {}
    /\ schedules = <<>>
    /\ pc = "sleep"
    /\ scanNow = 0
    /\ it = 0
    /\ itLen = 0
    /\ postStoreOk = TRUE
    /\ schedStoreOk = TRUE
    /\ result = Ret("none", 0, "none")
    /\ invoked = {}
    /\ config = DefaultConfig
    /\ templates = {}
    /\ running = TRUE
    /\ loop2 = NoLoop
    /\ own = NoPosts
    /\ disk = NoPosts

\* calls of the scheduler's clients, and of the owner of its posts
Client(cap) ==
    \/ \E t \in Times \cup {NoTime} : CreatePost(t)
    \/ \E p \in PostIds : DeletePost(p)
    \/ \E p \in {GhostId} \cup (1..created), t \in Times : SchedulePost(p, t, cap)
    \/ \E sid \in ScheduleIds : CancelSchedule(sid)

\* steps of the background task
Loop ==
    \/ ScanBegin
    \/ \E ok \in BOOLEAN : ScanPublishReturn(ok)

Next ==
    \/ Client(MaxSchedules)
    \/ Loop
    \/ Tick

Spec == Init /\ [][Next]_vars

\* the same system with room for one more schedule
NextWide ==
    \/ Client(MaxSchedules + 1)
    \/ Loop
    \/ Tick

SpecWide == Init /\ [][NextWide]_vars

\* the wide system with a loop task that is always resumed: after its sleep,
\* and by the Publisher's answer
LoopFairness ==
    /\ WF_vars(ScanBegin)
    /\ WF_vars(\E ok \in BOOLEAN : ScanPublishReturn(ok))

SpecLive == Init /\ [][NextWide]_vars /\ LoopFairness

\* the wide system with store writes that may fail
NextFault ==
    \/ Client(MaxSchedules + 1)
    \/ Loop
    \/ Tick
    \/ StoreFault

SpecFault == Init /\ [][NextFault]_vars

\* a PostManager under the calls of its callers
NextPM ==
    \/ \E t \in Times \cup {NoTime} : CreatePost(t)
    \/ \E p \in PostIds, kw \in UpdateInputs : UpdatePost(p, kw)
    \/ \E p \in PostIds : DeletePost(p)
    \/ \E p \in PostIds, t \in Times : PmSchedulePost(p, t)
    \/ \E p \in PostIds : PostNowCall(p)
    \/ \E p \in PostIds, ok \in BOOLEAN : PostNowReturn(p, ok)
    \/ Tick

SpecPM == Init /\ [][NextPM]_vars

\* the scheduler with room for a schedule made during a pass over two
BusyScheduleIds == 1..(MaxSchedules + 2)

NextBusy ==
    \/ \E t \in Times \cup {NoTime} : CreatePost(t)
    \/ \E p \in 1..created, t \in Times : SchedulePost(p, t, MaxSchedules + 2)
    \/ \E sid \in BusyScheduleIds : CancelSchedule(sid)
    \/ Loop
    \/ Tick

SpecBusy == Init /\ [][NextBusy]_vars

\* the scheduler under start_scheduler and stop_scheduler
NextLoops ==
    \/ \E t \in Times \cup {NoTime} : CreatePost(t)
    \/ \E p \in 1..created, t \in Times : SchedulePost(p, t, MaxSchedules)
    \/ \E sid \in ScheduleIds : CancelSchedule(sid)
    \/ Loop
    \/ LoopExit
    \/ StartScheduler
    \/ StopScheduler
    \/ Scan2Begin
    \/ Scan2Exit
    \/ \E ok \in BOOLEAN : Scan2PublishReturn(ok)
    \/ Tick

SpecLoops == Init /\ [][NextLoops]_vars

\* the PostManager with store writes that may fail
NextPMFault ==
    \/ NextPM
    \/ StoreFault

SpecPMFault == Init /\ [][NextPMFault]_vars

\* the scheduler's config, its advisor and its recurring generation
NextRecurring ==
    \/ \E slots \in SlotLists : UpdateConfig(slots)
    \/ \E date \in SuggestDates, n \in 0..MaxSuggestions : SuggestOptimalTimes(date, n)
    \/ \E cfg \in Configs, tmplOk \in BOOLEAN : CreateRecurringSchedule(cfg, tmplOk)
    \/ \E t \in NowPoints : Advance(t)

SpecRecurring == Init /\ [][NextRecurring]_vars

\* the scheduler and the manager with templates added
NextStore ==
    \/ Client(MaxSchedules)
    \/ \E name \in TemplateNames : AddTemplate(name)
    \/ Loop
    \/ Tick

SpecStore == Init /\ [][NextStore]_vars

\* the manager and the scheduler under calls with arbitrary arguments
NextInput ==
    \/ \E text \in Texts, ptype \in PostTypeInputs, t \in Times \cup {NoTime} :
           CreatePostOf(text, ptype, NoTemplate, t)
    \/ \E p \in {GhostId} \cup (1..created), t \in Times, stype \in ScheduleTypeInputs :
           SchedulePostOf(p, t, stype, MaxSchedules)
    \/ \E sid \in ScheduleIds : CancelSchedule(sid)
    \/ Tick

SpecInput == Init /\ [][NextInput]_vars

\* the stores with templates added and posts made from them
NextTemplate ==
    \/ NextStore
    \/ \E name \in TemplateInputs, varsOk \in BOOLEAN : CreatePostFromTemplate(name, varsOk)

SpecTemplate == Init /\ [][NextTemplate]_vars

\* the manager with two posts and the scheduler's store, no loop running
WidePostIds == 1..(MaxPosts + 1)

NextFrame ==
    \/ \E t \in Times \cup {NoTime} : CreatePostWide(t)
    \/ \E p \in WidePostIds, kw \in UpdateInputs : UpdatePost(p, kw)
    \/ \E p \in WidePostIds : DeletePost(p)
    \/ \E p \in {GhostId} \cup (1..created), t \in Times : SchedulePost(p, t, MaxSchedules)
    \/ Tick

SpecFrame == Init /\ [][NextFrame]_vars

\* the endpoints' manager, the scheduler and its own manager, as wired
NextWired ==
    \/ \E t \in Times \cup {NoTime} : ApiCreatePost(t)
    \/ \E p \in WidePostIds : ApiDeletePost(p)
    \/ \E ok \in BOOLEAN : WiredPass(ok)
    \/ Restart
    \/ Tick

SpecWired == Init /\ [][NextWired]_vars

\* ------------------------------------------------------------- properties
\* the instant the current pass read as now, and the size self.schedules had
\* when the pass made its iterator
passNow == IF pc = "sleep" THEN now ELSE scanNow
passLen == IF pc = "sleep" THEN Len(schedules) ELSE itLen

\* C1: when the Publisher returns true for the post of a schedule that a pass
\* found pending and due, the pass writes status executed and executed_at to
\* the schedule, and the post gets status posted and posted_at; a post that
\* the store holds at that moment lies in the active partition, not in the
\* drafts.
C1_ExecutedAndPosted ==
    [][ScanPublishReturn(TRUE) =>
        LET p == schedules[it].post_id IN
            /\ schedules'[it].status = "executed"
            /\ schedules'[it].executed_at # NoTime
            /\ post'[p].status = "posted"
            /\ post'[p].posted_at # NoTime
            /\ (Stored(p) => p \in posts' /\ p \notin drafts')]_vars

C1_Witness ==
    \E s \in DOMAIN schedules :
        /\ schedules[s].status = "executed"
        /\ schedules[s].executed_at >= schedules[s].scheduled_time
        /\ schedules[s].post_id \in posts
        /\ post[schedules[s].post_id].status = "posted"
        /\ post[schedules[s].post_id].posted_at # NoTime

\* C2: a step of a pass never invokes post_now for a schedule whose
\* scheduled_time is later than the now of the pass; the step leaves such a
\* schedule as it is (pending), and it leaves unchanged every post that only
\* such schedules name.
C2_NotDueUntouched ==
    [][Loop =>
        /\ \A s \in DOMAIN schedules :
              schedules[s].scheduled_time > passNow =>
                  /\ schedules'[s] = schedules[s]
                  /\ schedules[s].status \in {"pending", "cancelled"}
                  /\ s \notin invoked'
                  /\ ~(pc' = "await" /\ it' = s)
        /\ \A p \in PostIds :
              (/\ \E s \in DOMAIN schedules : schedules[s].post_id = p
               /\ \A s \in DOMAIN schedules :
                     schedules[s].post_id = p =>
                         schedules[s].scheduled_time > passNow)
              => /\ post'[p] = post[p]
                 /\ (p \in posts') = (p \in posts)
                 /\ (p \in drafts') = (p \in drafts)]_vars

\* a pass has failed the second schedule, whose post does not exist, and left
\* the first, which is not yet due, pending and its post scheduled
C2_Witness ==
    /\ Len(schedules) >= 2
    /\ pc = "sleep"
    /\ schedules[2].status = "failed"
    /\ schedules[2].error_message = MsgNotFound
    /\ schedules[1].status = "pending"
    /\ schedules[1].scheduled_time > now
    /\ 1 \notin invoked
    /\ Stored(schedules[1].post_id)
    /\ post[schedules[1].post_id].status = "scheduled"

\* C3: a schedule whose status is executed, failed or cancelled never changes
\* again, so a status changes only from pending.
C3_TerminalImmutable ==
    [][\A s \in DOMAIN schedules :
          schedules[s].status # "pending" => schedules'[s] = schedules[s]]_vars

\* C4: cancel_schedule on an id that is absent, or on a schedule that is not
\* pending, returns false and leaves every schedule unchanged; the same call
\* made again returns false and changes nothing.
C4_CancelRefused ==
    [][\A sid \in ScheduleIds :
          (/\ sid \notin DOMAIN schedules \/ schedules[sid].status # "pending"
           /\ CancelSchedule(sid))
          => /\ result'.ret = "false"
             /\ schedules' = schedules
             /\ CancelReturn(schedules', sid, schedStoreOk') = "false"
             /\ CancelSchedules(schedules', sid) = schedules']_vars

C4_Witness ==
    /\ result.op = "cancel_schedule"
    /\ result.ret = "false"
    /\ result.arg \in DOMAIN schedules
    /\ schedules[result.arg].status = "executed"

\* C5: cancel_schedule on a pending schedule returns true and sets the status
\* cancelled; a schedule that is cancelled and for which no pass has invoked
\* post_now is never handed to post_now, and never changes, afterwards.
C5_CancelPending ==
    [][/\ \A sid \in ScheduleIds :
             (/\ sid \in DOMAIN schedules
              /\ schedules[sid].status = "pending"
              /\ CancelSchedule(sid))
             => /\ result'.ret = "true"
                /\ schedules'[sid].status = "cancelled"
       /\ \A s \in DOMAIN schedules :
             (schedules[s].status = "cancelled" /\ s \notin invoked)
             => /\ s \notin invoked'
                /\ ~(pc' = "await" /\ it' = s)
                /\ schedules'[s] = schedules[s]]_vars

\* a due schedule was cancelled before any pass reached it
C5_Witness ==
    \E s \in DOMAIN schedules :
        /\ result = Ret("cancel_schedule", s, "true")
        /\ schedules[s].status = "cancelled"
        /\ schedules[s].scheduled_time <= now
        /\ Stored(schedules[s].post_id)
        /\ s \notin invoked

\* C6: when the Publisher returns false for the post of a schedule that a pass
\* found pending and due, the pass writes status failed and the generic
\* message to the schedule, and the post gets status failed and a message.
C6_PublisherFalse ==
    [][ScanPublishReturn(FALSE) =>
        LET p == schedules[it].post_id IN
            /\ schedules'[it].status = "failed"
            /\ schedules'[it].error_message = MsgGeneric
            /\ post'[p].status = "failed"
            /\ post'[p].error_message # NoMsg]_vars

C6_Witness ==
    \E s \in DOMAIN schedules :
        /\ schedules[s].status = "failed"
        /\ schedules[s].error_message = MsgGeneric
        /\ Stored(schedules[s].post_id)
        /\ post[schedules[s].post_id].status = "failed"
        /\ post[schedules[s].post_id].error_message = MsgXApi

\* C7: when post_now raises for a schedule that a pass found pending and due,
\* because the post is in neither partition or because the post store cannot
\* be written, the step of the pass leaves the schedule failed with the
\* message of the exception, and no caller's result changes.
C7_PublishRaises ==
    [][Loop =>
        /\ result' = result
        /\ \A s \in DOMAIN schedules :
              /\ (/\ s \in invoked' \ invoked
                  /\ ~Stored(schedules[s].post_id))
                 => /\ schedules'[s].status = "failed"
                    /\ schedules'[s].error_message = MsgNotFound
              /\ (pc = "await" /\ it = s /\ ~postStoreOk)
                 => /\ schedules'[s].status = "failed"
                    /\ schedules'[s].error_message = MsgPostSave]_vars

\* a schedule has failed because its post, once created, had been deleted
C7_Witness ==
    \E s \in DOMAIN schedules :
        /\ schedules[s].status = "failed"
        /\ schedules[s].error_message = MsgNotFound
        /\ schedules[s].post_id \in 1..created
        /\ ~Stored(schedules[s].post_id)
        /\ s \in invoked

\* C8: a pass in which the handling of a schedule fails still ends with no
\* schedule, of those it iterates over, left pending and due at its now.
C8_FailureIsolated ==
    [][(/\ Loop
        /\ pc' = "sleep"
        /\ \E f \in 1..passLen :
              schedules[f].status # "failed" /\ schedules'[f].status = "failed")
       => \A s \in 1..passLen : ~Due(schedules'[s], passNow)]_vars

\* C9: create_post returns a post that is scheduled if and only if a
\* scheduled_time was supplied and is a draft otherwise; the draft is stored in
\* the draft partition only and the scheduled post in the active partition
\* only.
C9_CreatePost ==
    [][\A t \in Times \cup {NoTime} :
          CreatePost(t) =>
              LET p == created' IN
                  /\ result' = Ret("create_post", p, "post")
                  /\ (post'[p].status = "scheduled") <=> (t # NoTime)
                  /\ (post'[p].status = "draft") <=> (t = NoTime)
                  /\ t = NoTime => p \in drafts' /\ p \notin posts'
                  /\ t # NoTime => p \in posts' /\ p \notin drafts']_vars

C9_Witness ==
    /\ result.op = "create_post"
    /\ result.arg \in posts
    /\ post[result.arg].status = "scheduled"
    /\ post[result.arg].scheduled_time # NoTime

\* C10: every stored post that is scheduled has a scheduled_time and every
\* stored post that is posted has a posted_at.
C10_StatusTimes ==
    \A p \in posts \cup drafts :
        /\ post[p].status = "scheduled" => post[p].scheduled_time # NoTime
        /\ post[p].status = "posted" => post[p].posted_at # NoTime

\* C11: no post id is in the draft partition and in the active partition at
\* once, a created post is in one of them, and a post that is in one of them
\* stays in one of them through every step but its own delete_post.
C11_OnePartition ==
    /\ [](posts \cap drafts = {})
    /\ [][/\ \A t \in Times \cup {NoTime} :
                CreatePost(t) => created' \in posts' \cup drafts'
          /\ \A p \in PostIds :
                (Stored(p) /\ ~DeletePost(p)) => p \in posts' \cup drafts']_vars

\* post_now has moved a draft to the active partition
C11_Witness ==
    \E p \in posts :
        /\ p \notin drafts
        /\ result = Ret("post_now", p, "true")
        /\ post[p].status = "posted"
        /\ post[p].scheduled_time = NoTime

\* C12: a stored post is in the draft partition if and only if its status is
\* draft.
C12_PartitionByStatus ==
    \A p \in posts \cup drafts : (p \in drafts) <=> (post[p].status = "draft")

\* C13: the status of a stored post changes only from draft to scheduled, from
\* scheduled to posted and from scheduled to failed.
C13_StatusPath ==
    [][\A p \in PostIds :
          (Stored(p) /\ p \in posts' \cup drafts'
           /\ post'[p].status # post[p].status)
          => <<post[p].status, post'[p].status>> \in
                {<<"draft", "scheduled">>, <<"scheduled", "posted">>,
                 <<"scheduled", "failed">>}]_vars

\* C14: suggest_optimal_times(date, n) returns at most n instants, each later
\* than the now of the call and each the clock time of a configured day-part
\* on the day of date, in the order of the configured day-parts; for a date
\* whose day has ended it returns the empty list.
C14_Suggestions ==
    result.op = "suggest_optimal_times" =>
        LET in == result.arg
            out == result.ret
        IN  /\ Len(out) <= in.n
            /\ \A i \in 1..Len(out) : out[i] > in.now
            /\ \E f \in [1..Len(out) -> 1..Len(in.slots)] :
                  /\ \A i \in 1..Len(out) :
                        /\ DateOf(out[i]) = DateOf(in.date)
                        /\ out[i] - BaseDate(in.date) = SlotClock(in.slots[f[i]])
                  /\ \A i, j \in 1..Len(out) : i < j => f[i] < f[j]
            /\ (DateOf(in.date) < DateOf(in.now) => out = <<>>)

\* a call made at 08:00 sharp returned the later three of the four configured
\* day-parts of that day
C14_Witness ==
    /\ result.op = "suggest_optimal_times"
    /\ Len(result.arg.slots) = 4
    /\ Len(result.ret) = 3
    /\ result.arg.n >= 3
    /\ result.arg.now = BaseDate(result.arg.date) + SlotClock("morning")

\* C15: when the config names days of the week, every schedule that
\* create_recurring_schedule makes lies on one of them.
C15_DaysOfWeek ==
    result.op = "create_recurring_schedule" =>
        (result.arg.config.days_of_week # {} =>
            \A i \in 1..Len(result.ret.times) :
                Weekday(result.ret.times[i]) \in result.arg.config.days_of_week)

\* a call for Saturdays and Sundays returned schedules on both
C15_Witness ==
    /\ result.op = "create_recurring_schedule"
    /\ result.ret.outcome = "return"
    /\ result.arg.config.days_of_week = {5, 6}
    /\ \E i, j \in 1..Len(result.ret.times) :
          Weekday(result.ret.times[i]) = 5 /\ Weekday(result.ret.times[j]) = 6

\* C16: one call of create_recurring_schedule makes at most max_posts_per_day
\* schedules.
C16_RunTotal ==
    result.op = "create_recurring_schedule" =>
        Len(result.ret.times) <= result.arg.config.max_posts_per_day

\* C17: every schedule create_recurring_schedule makes is at the clock time
\* of a day-part of the config passed to the call.
C17_PassedDayParts ==
    result.op = "create_recurring_schedule" =>
        \A i \in 1..Len(result.ret.times) :
            \E j \in 1..Len(result.arg.config.optimal_time_slots) :
                result.ret.times[i] % DayLen =
                    SlotClock(result.arg.config.optimal_time_slots[j])

\* C18: create_recurring_schedule with an end time returns or raises.
C18_Terminates ==
    result.op = "create_recurring_schedule" =>
        result.ret.outcome \in {"return", "raise"}

\* C19: in every state the counts get_statistics returns for pending,
\* executed, failed and cancelled add up to its total, the number of schedules
\* in the store, and its success_rate is executed / total * 100, or 0 for an
\* empty store.
C19_Statistics ==
    LET st == GetStatistics(schedules) IN
        /\ st.total_schedules = Len(schedules)
        /\ st.pending_schedules + st.executed_schedules + st.failed_schedules
              + st.cancelled_schedules = st.total_schedules
        /\ st.executed_schedules =
              Cardinality({i \in DOMAIN schedules : schedules[i].status = "executed"})
        /\ IF st.total_schedules = 0
           THEN st.success_rate.num = 0
           ELSE st.success_rate.num * st.total_schedules
                    = st.executed_schedules * 100 * st.success_rate.den

\* one schedule of two is executed, the other cancelled: the rate is 50
C19_Witness ==
    /\ GetStatistics(schedules).total_schedules = 2
    /\ GetStatistics(schedules).executed_schedules = 1
    /\ GetStatistics(schedules).cancelled_schedules = 1
    /\ GetStatistics(schedules).success_rate = [num |-> 100, den |-> 2]

\* C20: in every state, saving the post, template and schedule stores and
\* loading them into a fresh manager and scheduler succeeds and gives
\* collections equal to the ones saved: the same ids in the same partitions
\* with the same statuses and timestamps, the same templates, the same
\* schedules.
C20_RoundTrip ==
    LET files == SaveData(Memory)
        loaded == LoadData(files)
    IN /\ ~files.raised
       /\ loaded.outcome = "loaded"
       /\ loaded.posts = Memory.posts
       /\ loaded.drafts = Memory.drafts
       /\ loaded.templates = Memory.templates
       /\ loaded.schedules = Memory.schedules

\* C21: a create_post call whose content text is empty, or whose post_type is
\* not one of text, image, video, mixed, raises, and neither partition gains
\* a post.
C21_CreateRejects ==
    [][\A text \in Texts, ptype \in PostTypeInputs, t \in Times \cup {NoTime} :
          (CreatePostOf(text, ptype, NoTemplate, t)
              /\ (text = "" \/ ptype \notin PostType))
          => /\ result'.ret = "raise"
             /\ posts' = posts
             /\ drafts' = drafts]_vars

\* C22: update_post on an id that is not stored raises and changes no post and
\* no partition; on a stored id it sets exactly the supplied fields, leaves
\* the post's other fields and every other post as they were, and leaves both
\* partitions as they were.
C22_UpdateFrame ==
    [][\A p \in WidePostIds, kw \in UpdateInputs :
          UpdatePost(p, kw) =>
             /\ posts' = posts
             /\ drafts' = drafts
             /\ \A q \in DOMAIN post : q # p => post'[q] = post[q]
             /\ IF Stored(p)
                THEN /\ \A f \in DOMAIN kw : post'[p][f] = kw[f]
                     /\ \A f \in DOMAIN post[p] \ DOMAIN kw : post'[p][f] = post[p][f]
                ELSE /\ result'.ret = "raise"
                     /\ post' = post]_vars

\* a draft among two stored posts was given a scheduled_time: it is still a
\* draft, in the draft partition
C22_Witness ==
    /\ result = Ret("update_post", 1, "post")
    /\ Stored(1) /\ Stored(2)
    /\ 1 \in drafts
    /\ post[1].status = "draft"
    /\ post[1].scheduled_time = 1

\* C23: delete_post on a stored id returns true and takes exactly that id out
\* of the partition that holds it, so that get_post no longer finds it; on an
\* id that is not stored it returns false and changes nothing; either way
\* every other post stays as it was, in its partition, and every schedule
\* stays as it was, the pending schedules of the deleted post included.
C23_DeleteFrame ==
    [][\A p \in WidePostIds :
          DeletePost(p) =>
             /\ schedules' = schedules
             /\ \A q \in DOMAIN post : q # p => post'[q] = post[q]
             /\ posts' = posts \ {p}
             /\ drafts' = drafts \ {p}
             /\ IF Stored(p)
                THEN /\ result'.ret = "true"
                     /\ p \notin posts' \cup drafts'
                ELSE /\ result'.ret = "false"
                     /\ post' = post]_vars

\* post 1 was deleted while post 2 is stored and a pending schedule targets
\* post 1
C23_Witness ==
    /\ result = Ret("delete_post", 1, "true")
    /\ ~Stored(1) /\ Stored(2)
    /\ \E i \in DOMAIN schedules :
          schedules[i].post_id = 1 /\ schedules[i].status = "pending"

\* C24: create_post_from_template raises and creates no post when the
\* template name is unknown or a placeholder has no supplied variable;
\* otherwise it returns a post and exactly one post is created, a draft whose
\* template_name and post_type are those of the template.
C24_FromTemplate ==
    [][\A name \in TemplateInputs, varsOk \in BOOLEAN :
          CreatePostFromTemplate(name, varsOk) =>
             IF name \notin templates \/ ~varsOk
             THEN /\ result'.ret = "raise"
                  /\ created' = created
                  /\ posts' = posts /\ drafts' = drafts /\ post' = post
             ELSE /\ result'.ret = "post"
                  /\ created' = created + 1
                  /\ posts' = posts /\ drafts' = drafts \cup {created'}
                  /\ post'[created'].status = "draft"
                  /\ post'[created'].template_name = name
                  /\ post'[created'].post_type = TemplatePostType(name)]_vars

\* C25: post_now on an id that is not stored raises and changes no post; when
\* post_now raises for a stored post, the post has status failed and its
\* error_message is the text of the exception; when it returns false the post
\* has status failed.
C25_PostNowErrors ==
    [][/\ \A p \in PostIds :
             (PostNowCall(p) /\ ~Stored(p))
             => /\ result' = Ret("post_now", p, MsgNotFound)
                /\ post' = post /\ posts' = posts /\ drafts' = drafts
       /\ \A p \in PostIds, ok \in BOOLEAN :
             PostNowReturn(p, ok)
             => /\ result'.ret \notin {"true", "false"}
                   => /\ post'[p].status = "failed"
                      /\ post'[p].error_message = result'.ret
                /\ result'.ret = "false" => post'[p].status = "failed"]_vars

\* the Publisher accepted the post and the save failed: post_now raised, the
\* post is failed and carries the save error
C25_Witness ==
    /\ result = Ret("post_now", 1, MsgPostSave)
    /\ post[1].status = "failed"
    /\ post[1].error_message = MsgPostSave
    /\ post[1].posted_at # NoTime

\* C26: a schedule_post call whose schedule type is not one of once, daily,
\* weekly, monthly raises, and the store gains no schedule.
C26_ScheduleTypeRejected ==
    [][\A p \in {GhostId} \cup PostIds, t \in Times, stype \in ScheduleTypeInputs :
          (SchedulePostOf(p, t, stype, MaxSchedules) /\ stype \notin ScheduleType)
          => /\ result'.ret = "raise"
             /\ schedules' = schedules]_vars

\* C27: a cancel_schedule for the schedule whose publish a pass is suspended
\* in returns true and leaves the pass suspended in that publish; when the
\* publish returns, the loop writes executed or failed over the cancelled
\* status, and that status then stays.
C27_LoopWriteWins ==
    [][/\ \A sid \in ScheduleIds :
             (pc = "await" /\ it = sid /\ schedules[sid].status = "pending"
                 /\ CancelSchedule(sid))
             => /\ result' = Ret("cancel_schedule", sid, "true")
                /\ schedules'[sid].status = "cancelled"
                /\ pc' = "await" /\ it' = it
       /\ \A ok \in BOOLEAN :
             ScanPublishReturn(ok)
             => schedules'[it].status = IF ok THEN "executed" ELSE "failed"
       /\ \A s \in DOMAIN schedules :
             schedules[s].status \in {"executed", "failed"}
             => schedules'[s].status = schedules[s].status]_vars

\* the last call was a cancel that returned true, and its schedule is executed
C27_Witness ==
    /\ result = Ret("cancel_schedule", 1, "true")
    /\ schedules[1].status = "executed"
    /\ pc = "sleep"

\* C28: when a pass that awaited a publish ends and the loop goes back to
\* sleep, no schedule that was in the store when the pass began and was due
\* then is still pending: the pass has processed every one of them, whatever
\* other callers did while it was suspended.
C28_FullPass ==
    [][(pc = "await" /\ pc' = "sleep")
          => \A i \in 1..itLen : ~Due(schedules'[i], scanNow)]_vars

\* C29: in every state reached by start_scheduler and stop_scheduler calls at
\* most one loop task is live, that is, sleeping between passes or inside a
\* pass.
C29_OneLoop == ~(Live(pc) /\ Live(loop2.pc))

\* C30: post_now is called at most once for each schedule: no pass of either
\* task turns to a schedule that a pass has already called post_now for, so
\* an executed, failed or cancelled schedule is never published again.
C30_PublishOnce ==
    [][/\ (pc' = "await" /\ (pc # "await" \/ it' # it)) => it' \notin invoked
       /\ (loop2'.pc = "await" /\ (loop2.pc # "await" \/ loop2'.it # loop2.it))
             => loop2'.it \notin invoked]_vars

\* C31: with a loop that keeps running, a Publisher that always answers and
\* writable stores, every schedule that is pending with scheduled_time <= now
\* eventually is executed or failed, unless it is cancelled.
C31_DueIsProcessed ==
    \A i \in ScheduleIds :
        (i \in DOMAIN schedules /\ schedules[i].status = "pending"
            /\ schedules[i].scheduled_time <= now)
        ~> (i \in DOMAIN schedules
               /\ schedules[i].status \in {"executed", "failed", "cancelled"})

\* two schedules were due and both were processed, one to executed and one
\* to failed
C31_Witness ==
    /\ Len(schedules) = 2
    /\ schedules[1].status = "executed" /\ schedules[1].scheduled_time <= schedules[1].executed_at
    /\ schedules[2].status = "failed"
    /\ pc = "sleep"

\* C32: a step of the loop task in which a write of the schedule store raises
\* leaves the task asleep, not ended, with running still true; and a task
\* that is asleep while running is true can start a further pass.
C32_LoopSurvives ==
    /\ [][((ScanBegin \/ \E ok \in BOOLEAN : ScanPublishReturn(ok))
              /\ ~schedStoreOk /\ schedules' # schedules)
           => (pc' = "sleep" /\ running')]_vars
    /\ [][(ScanBegin \/ \E ok \in BOOLEAN : ScanPublishReturn(ok))
           => pc' \in {"sleep", "await"}]_vars
    /\ []((pc = "sleep" /\ running) => ENABLED ScanBegin)

\* a pass has found a due schedule of a missing post, the write of the failed
\* schedule has raised, and the task sleeps
C32_Witness ==
    /\ ~schedStoreOk
    /\ pc = "sleep"
    /\ running
    /\ Len(schedules) >= 1
    /\ schedules[1].status = "failed"
    /\ schedules[1].error_message = MsgNotFound

\* C33: in the wired system a pass never marks a schedule failed with the
\* post-not-found error while the endpoints' manager holds the target post,
\* that is, while the post is created and not deleted.
C33_WiredPostFound ==
    [][\A i \in DOMAIN schedules :
          (schedules[i].status = "pending" /\ schedules'[i].status = "failed"
              /\ schedules'[i].error_message = MsgNotFound)
          => ~Stored(schedules[i].post_id)]_vars

\* C39: in the wired system the post files hold every post that was created
\* through the endpoints' manager and not deleted, whatever the two managers
\* have written.
C39_NothingDropped ==
    posts \cup drafts \subseteq DOMAIN disk.posts \cup DOMAIN disk.drafts

C35_ReturnsCreated ==
    [][(result.op = "none" /\ result'.op = "create_recurring_schedule"
        /\ result'.ret.outcome = "return")
       => LET ids == result'.ret.schedules
              n == Len(schedules') - Len(schedules)
          IN  /\ SubSeq(schedules', 1, Len(schedules)) = schedules
              /\ ids = [i \in 1..n |-> Len(schedules) + i]
              /\ \A i \in 1..n :
                    LET s == schedules'[ids[i]]
                    IN  /\ s.status = "pending"
                        /\ s.schedule_type = result'.arg.config.schedule_type
                        /\ s.scheduled_time = result'.ret.times[i]
                        /\ ~Stored(s.post_id)
                        /\ s.post_id \in drafts'
                        /\ post'[s.post_id].status = "draft"
                        /\ \A j \in 1..n :
                              schedules'[ids[j]].post_id = s.post_id => j = i
              /\ Cardinality(drafts' \ drafts) = n
              /\ posts' = posts]_vars

\* a weekly run returned several schedules, one draft each
C35_Witness ==
    /\ result.op = "create_recurring_schedule"
    /\ result.ret.outcome = "return"
    /\ result.arg.config.schedule_type = "weekly"
    /\ Len(result.ret.schedules) >= 3
    /\ Len(schedules) = Len(result.ret.schedules)
    /\ schedules[1].post_id # schedules[2].post_id
    /\ schedules[3].schedule_type = "weekly"

\* C36: the Publisher is never invoked for a post whose status is posted:
\* no step of the loop task starts an await of post_now on a schedule
\* whose post is posted at that moment, however many schedules target it.
C36_PostedOnce ==
    [][\A i \in DOMAIN schedules' :
          (pc' = "await" /\ it' = i /\ (pc # "await" \/ it # i))
          => post'[schedules'[i].post_id].status # "posted"]_vars

\* C37: when the Publisher accepts the post of a schedule the pass awaits,
\* the Post is posted and the schedule executed afterwards, also when a
\* store write fails after the Publisher's answer.
C37_AcceptedStaysPosted ==
    [][ScanPublishReturn(TRUE)
       => /\ post'[schedules[it].post_id].status = "posted"
          /\ schedules'[it].status = "executed"]_vars

\* C38: in every state every schedule has executed_at set exactly when its
\* status is executed, and an error_message only when its status is failed.
C38_FieldsMatchStatus ==
    \A i \in DOMAIN schedules :
        /\ schedules[i].executed_at # NoTime <=> schedules[i].status = "executed"
        /\ schedules[i].error_message # NoMsg => schedules[i].status = "failed"

\* C40: a create_recurring_schedule that raises after it has made posts and
\* schedules leaves them in the stores: one pending schedule per time made
\* before the error, each on a draft the run created.
C40_NoRollback ==
    [][(result.op = "none" /\ result'.op = "create_recurring_schedule"
        /\ result'.ret.outcome = "raise")
       => LET made == result'.ret.times
              base == Len(schedules)
          IN  /\ Len(schedules') = base + Len(made)
              /\ \A i \in 1..Len(made) :
                    /\ schedules'[base + i].status = "pending"
                    /\ schedules'[base + i].scheduled_time = made[i]
                    /\ schedules'[base + i].post_id \in drafts' \ drafts
                    /\ post'[schedules'[base + i].post_id].status = "draft"]_vars

\* a monthly run from Wednesday 31 January made schedules for that day and
\* then raised on the step to 31 February
C40_Witness ==
    /\ result.op = "create_recurring_schedule"
    /\ result.ret.outcome = "raise"
    /\ result.arg.tmplOk
    /\ result.arg.config.schedule_type = "monthly"
    /\ result.arg.config.start_time = 30 * DayLen
    /\ Len(result.ret.times) = 2
    /\ Len(schedules) = 2
    /\ \A i \in 1..2 : schedules[i].status = "pending" /\ schedules[i].post_id \in drafts

====
